---- MODULE Spec2Model ----
(***************************************************************************)
(* things-to-check: a web service that serves one troubleshooting          *)
(* suggestion per request, either the `item`th one or a random one.        *)
(*                                                                         *)
(* The model follows src/src/bin/web.rs (main), src/src/view.rs (the       *)
(* catalog, the `GET /` handler and its share links) and                   *)
(* src/src/twelve.rs (reading PORT from the environment).                  *)
(*                                                                         *)
(* Text is modelled as a sequence of one-character strings, so that        *)
(* formatting and parsing are computed and not assumed.  HTML output is a  *)
(* sequence of characters and tags.                                        *)
(***************************************************************************)
EXTENDS Integers, Sequences, FiniteSets, TLC

VARIABLES
    PORT,          \* the PORT environment variable, as std::env::var sees it
    THINGS,        \* the document compiled in from things-to-check.yml
    pc,            \* where main() is
    port_arg,      \* the default_port the last call of twelve::port was given
    port_result,   \* what the last call of twelve::port returned
    things,        \* the Things captured by the closure make_service returns
    data,          \* per worker: the web::Data<Things> its App was configured with
    conn,          \* per connection: the request in flight and its response
    extension,     \* suggestions appended to THINGS by a later build
    built,         \* the catalog load_things builds from THINGS
    built_ext      \* the catalog load_things builds from THINGS plus extension

vars == <<PORT, THINGS, pc, port_arg, port_result, things, data, conn,
          extension, built, built_ext>>

(***************************************************************************)
(* Bounds of the model.                                                    *)
(***************************************************************************)
MaxThings == 2
NumWorkers == 2
NumConns == 2
MaxPortLen == 5

(***************************************************************************)
(* Option and Result values.                                               *)
(***************************************************************************)
None == [tag |-> "None"]
Some(v) == [tag |-> "Some", val |-> v]
Ok(v) == [tag |-> "Ok", val |-> v]
Err(e) == [tag |-> "Err", err |-> e]

IsSome(o) == o.tag = "Some"
IsOk(r) == r.tag = "Ok"

(***************************************************************************)
(* Decimal text.                                                           *)
(***************************************************************************)
DigitChars == <<"0", "1", "2", "3", "4", "5", "6", "7", "8", "9">>

IsDigit(c) == \E d \in 1..10 : DigitChars[d] = c

DigitVal(c) == (CHOOSE d \in 1..10 : DigitChars[d] = c) - 1

\* impl Display for an unsigned integer: decimal, no sign, no leading zeros.
RECURSIVE to_string(_)
to_string(n) ==
    IF n < 10 THEN <<DigitChars[n + 1]>>
    ELSE to_string(n \div 10) \o <<DigitChars[(n % 10) + 1]>>

RECURSIVE StripZeros(_)
StripZeros(s) ==
    IF Len(s) > 1 /\ Head(s) = "0" THEN StripZeros(Tail(s)) ELSE s

\* a > b for two digit strings without leading zeros.
RECURSIVE DigitsGreater(_, _)
DigitsGreater(a, b) ==
    IF Len(a) # Len(b) THEN Len(a) > Len(b)
    ELSE IF a = <<>> THEN FALSE
    ELSE IF Head(a) # Head(b) THEN DigitVal(Head(a)) > DigitVal(Head(b))
    ELSE DigitsGreater(Tail(a), Tail(b))

RECURSIVE DigitsValue(_, _)
DigitsValue(s, acc) ==
    IF s = <<>> THEN acc ELSE DigitsValue(Tail(s), acc * 10 + DigitVal(Head(s)))

\* The largest values of the two unsigned types the program parses.
U16Max == <<"6", "5", "5", "3", "5">>
UsizeMax == <<"1", "8", "4", "4", "6", "7", "4", "4", "0", "7",
              "3", "7", "0", "9", "5", "5", "1", "6", "1", "5">>

\* Every value of at least 10^9 is far beyond any catalog or port this model
\* builds; such a value is kept as this one.
Far == 10 ^ 9

\* str::parse for an unsigned integer type whose largest value is `max`: an
\* optional "+", then one or more decimal digits, nothing else, and no
\* overflow.  A "-" is an invalid digit for an unsigned type.
ParseUnsigned(s, max) ==
    LET digits == IF s # <<>> /\ Head(s) = "+" THEN Tail(s) ELSE s
        canon == StripZeros(digits)
    IN  IF s = <<>> THEN Err("Empty")
        ELSE IF digits = <<>> THEN Err("InvalidDigit")
        ELSE IF \E k \in 1..Len(digits) : ~IsDigit(digits[k]) THEN Err("InvalidDigit")
        ELSE IF DigitsGreater(canon, max) THEN Err("PosOverflow")
        ELSE IF Len(canon) > 9 THEN Ok(Far)
        ELSE Ok(DigitsValue(canon, 0))

(***************************************************************************)
(* twelve.rs: the port number from the environment.                        *)
(***************************************************************************)
NotPresent == [tag |-> "NotPresent"]
NotUnicode == [tag |-> "NotUnicode"]
Present(s) == [tag |-> "Present", val |-> s]

PortAddr(p) == [port |-> p]

\* The mutant of port: a PORT that does not parse falls back to the default.
port_lenient(env, default_port) ==
    IF env.tag = "Present"
    THEN LET parsed == ParseUnsigned(env.val, U16Max)
         IN  IF IsOk(parsed) THEN Ok(PortAddr(parsed.val)) ELSE Ok(PortAddr(default_port))
    ELSE IF env.tag = "NotPresent" THEN Ok(PortAddr(default_port))
    ELSE Err("NotUnicode")

\* pub fn port(default_port: u16) -> Result<PortAddr, Error>
port(env, default_port) ==
    IF env.tag = "Present"
    THEN LET parsed == ParseUnsigned(env.val, U16Max)
         IN  IF IsOk(parsed) THEN Ok(PortAddr(parsed.val)) ELSE Err("ParseError")
    ELSE IF env.tag = "NotPresent" THEN Ok(PortAddr(default_port))
    ELSE Err("NotUnicode")

(***************************************************************************)
(* view.rs: markdown, Thing and Things.                                    *)
(***************************************************************************)
\* The position of the first "*" of s at or after position k, 0 if none.
RECURSIVE FindStar(_, _)
FindStar(s, k) ==
    IF k > Len(s) THEN 0
    ELSE IF s[k] = "*" THEN k
    ELSE FindStar(s, k + 1)

EscapeHtml(c) ==
    IF c = "<" THEN <<"&lt;">>
    ELSE IF c = "&" THEN <<"&amp;">>
    ELSE <<c>>

RECURSIVE EscapeAll(_)
EscapeAll(s) == IF s = <<>> THEN <<>> ELSE EscapeHtml(Head(s)) \o EscapeAll(Tail(s))

\* The inline content of a paragraph: **x** is strong emphasis, *x* is
\* emphasis, a star that opens nothing is literal text, and text is escaped.
RECURSIVE Inline(_)
Inline(s) ==
    IF s = <<>> THEN <<>>
    ELSE IF Len(s) >= 5 /\ s[1] = "*" /\ s[2] = "*" /\ s[3] # "*"
            /\ FindStar(s, 4) # 0 /\ FindStar(s, 4) < Len(s)
            /\ s[FindStar(s, 4) + 1] = "*"
    THEN LET close == FindStar(s, 4)
         IN  <<"<strong>">> \o EscapeAll(SubSeq(s, 3, close - 1)) \o <<"</strong>">>
                 \o Inline(SubSeq(s, close + 2, Len(s)))
    ELSE IF Len(s) >= 3 /\ s[1] = "*" /\ s[2] # "*" /\ FindStar(s, 3) # 0
    THEN LET close == FindStar(s, 3)
         IN  <<"<em>">> \o EscapeAll(SubSeq(s, 2, close - 1)) \o <<"</em>">>
                 \o Inline(SubSeq(s, close + 1, Len(s)))
    ELSE EscapeHtml(Head(s)) \o Inline(Tail(s))

\* html::push_html over Parser::new_ext(markdown, Options::empty()), for one
\* line of text that opens no list, heading or other block: a paragraph, or
\* nothing for empty text.
push_html(markdown) ==
    IF markdown = <<>> THEN <<>>
    ELSE <<"<p>">> \o Inline(markdown) \o <<"</p>", "\n">>

\* impl From<String> for Thing
ThingFrom(markdown) == [markdown |-> markdown, html |-> push_html(markdown)]

\* Iterator::enumerate, collected: the pairs (position, element), from 0.
Enumerate(s) == [k \in 1..Len(s) |-> <<k - 1, s[k]>>]

\* A document of the YAML source: a sequence of nodes, a mapping, or text
\* that is no YAML at all.  A node is a string scalar or a nested mapping.
StrNode(s) == [kind |-> "str", val |-> s]
MapNode == [kind |-> "map", val |-> <<>>]
SeqDoc(nodes) == [kind |-> "seq", nodes |-> nodes]
MapDoc == [kind |-> "map", nodes |-> <<>>]
BadDoc == [kind |-> "syntax", nodes |-> <<>>]

\* serde_yaml::from_str::<Vec<String>>
from_str_vec_string(src) ==
    IF src.kind = "syntax" THEN Err("syntax")
    ELSE IF src.kind # "seq" THEN Err("invalid type: expected a sequence")
    ELSE IF \E k \in 1..Len(src.nodes) : src.nodes[k].kind # "str"
    THEN Err("invalid type: expected a string")
    ELSE Ok([k \in 1..Len(src.nodes) |-> src.nodes[k].val])

\* The mutant of load_things: the entries are numbered from the end.
load_things_reversed(src) ==
    LET raw_things == from_str_vec_string(src)
    IN  IF ~IsOk(raw_things) THEN raw_things
        ELSE LET n == Len(raw_things.val)
             IN  Ok([k \in 1..n |-> <<n - k, ThingFrom(raw_things.val[k])>>])

\* fn load_things(src: &str) -> serde_yaml::Result<Things>
load_things(src) ==
    LET raw_things == from_str_vec_string(src)
    IN  IF ~IsOk(raw_things) THEN raw_things
        ELSE Ok(Enumerate([k \in 1..Len(raw_things.val) |-> ThingFrom(raw_things.val[k])]))

\* The mutant of make_service: a source that does not load gives no suggestions.
make_service_default(src) ==
    LET loaded == load_things(src)
    IN  IF IsOk(loaded) THEN loaded ELSE Ok(<<>>)

\* pub fn make_service(): the Things the returned closure owns, or the error.
make_service(src) == load_things(src)

(***************************************************************************)
(* view.rs: the query string and the share links.                          *)
(***************************************************************************)
\* The pieces of s between separators sep.
RECURSIVE Split(_, _, _)
Split(s, sep, piece) ==
    IF s = <<>> THEN <<piece>>
    ELSE IF Head(s) = sep THEN <<piece>> \o Split(Tail(s), sep, <<>>)
    ELSE Split(Tail(s), sep, Append(piece, Head(s)))

RECURSIVE FindChar(_, _, _)
FindChar(s, c, k) ==
    IF k > Len(s) THEN 0
    ELSE IF s[k] = c THEN k
    ELSE FindChar(s, c, k + 1)

\* form_urlencoded::parse: the key=value pairs of a query string.
QueryPairs(q) ==
    LET pieces == SelectSeq(Split(q, "&", <<>>), LAMBDA x : x # <<>>)
        pair(x) == LET eq == FindChar(x, "=", 1)
                   IN  IF eq = 0 THEN <<x, <<>>>>
                       ELSE <<SubSeq(x, 1, eq - 1), SubSeq(x, eq + 1, Len(x))>>
    IN  [k \in 1..Len(pieces) |-> pair(pieces[k])]

ItemKey == <<"i", "t", "e", "m">>

\* struct ItemQuery { item: Option<usize> }
ItemQuery(item) == [item |-> item]

\* The mutant of QueryFromStr: an `item` that is no number counts as absent.
QueryFromStrLenient(q) ==
    LET items == SelectSeq(QueryPairs(q), LAMBDA kv : kv[1] = ItemKey)
    IN  IF Len(items) = 0 THEN Ok(ItemQuery(None))
        ELSE IF Len(items) > 1 THEN Err("duplicate field")
        ELSE LET parsed == ParseUnsigned(items[1][2], UsizeMax)
             IN  IF IsOk(parsed) THEN Ok(ItemQuery(Some(parsed.val)))
                 ELSE Ok(ItemQuery(None))

\* web::Query<ItemQuery>: serde_urlencoded::from_str of the query string.
\* Other keys are ignored, a missing `item` is None, and an `item` that is
\* not a usize is an error.
QueryFromStr(q) ==
    LET items == SelectSeq(QueryPairs(q), LAMBDA kv : kv[1] = ItemKey)
    IN  IF Len(items) = 0 THEN Ok(ItemQuery(None))
        ELSE IF Len(items) > 1 THEN Err("duplicate field")
        ELSE LET parsed == ParseUnsigned(items[1][2], UsizeMax)
             IN  IF IsOk(parsed) THEN Ok(ItemQuery(Some(parsed.val)))
                 ELSE Err("invalid digit")

\* serde_urlencoded::to_string(query): a None field is left out.
QueryToString(query) ==
    IF IsSome(query.item) THEN ItemKey \o <<"=">> \o to_string(query.item.val)
    ELSE <<>>

\* The mutant of ItemQueryFrom: the link names the next suggestion.
ItemQueryFromNext(idx) == ItemQuery(Some(idx + 1))

\* impl From<&usize> for ItemQuery
ItemQueryFrom(idx) == ItemQuery(Some(idx))

\* ItemQuery::default()
ItemQueryDefault == ItemQuery(None)

\* Urls::index_url: the URL of the "index" resource with the query set.
index_url(query) == [path |-> <<"/">>, query |-> QueryToString(query)]

\* fn index_view: the page for suggestion `thing` found at index `idx`.
index_view(idx, thing) ==
    [title |-> thing.markdown,
     og_description |-> thing.markdown,
     section |-> thing.html,
     another |-> index_url(ItemQueryDefault),
     share |-> index_url(ItemQueryFrom(idx))]

(***************************************************************************)
(* view.rs: the GET / handler.                                             *)
(***************************************************************************)
\* The response field of a connection that has no response yet.
NoResponse == [status |-> 0, headers |-> {}, page |-> None]

\* <[T]>::get
SliceGet(v, i) == IF i < Len(v) THEN Some(v[i + 1]) ELSE None

\* The mutant of SliceChoose: the first element is always the one chosen.
SliceChooseFirst(v) == IF v = <<>> THEN {None} ELSE {Some(v[1])}

\* SliceRandom::choose: every element it may return; None for an empty slice.
SliceChoose(v) ==
    IF v = <<>> THEN {None} ELSE {Some(v[k]) : k \in 1..Len(v)}

\* The mutant of Selected: an index that is not there gets a random suggestion.
SelectedOrRandom(v, item) ==
    IF IsSome(item) /\ IsSome(SliceGet(v, item.val)) THEN {SliceGet(v, item.val)}
    ELSE SliceChoose(v)

\* index, lines 200-203: what `thing` may be.
Selected(v, item) ==
    IF IsSome(item) THEN {SliceGet(v, item.val)} ELSE SliceChoose(v)

\* The mutant of Respond: the page goes out without the Cache-Control header.
RespondCacheable(thing) ==
    IF IsSome(thing)
    THEN [status |-> 200, headers |-> {},
          page |-> Some(index_view(thing.val[1], thing.val[2]))]
    ELSE [status |-> 404, headers |-> {}, page |-> None]

\* The mutant of Respond: no suggestion is an internal error.
RespondInternalError(thing) ==
    IF IsSome(thing)
    THEN [status |-> 200, headers |-> {<<"Cache-Control", "no-store">>},
          page |-> Some(index_view(thing.val[1], thing.val[2]))]
    ELSE [status |-> 500, headers |-> {}, page |-> None]

\* index, lines 205-211: the response for `thing`.
Respond(thing) ==
    IF IsSome(thing)
    THEN [status |-> 200, headers |-> {<<"Cache-Control", "no-store">>},
          page |-> Some(index_view(thing.val[1], thing.val[2]))]
    ELSE [status |-> 404, headers |-> {}, page |-> None]

\* The response when the Query extractor fails: the handler is not called.
BadRequest == [status |-> 400, headers |-> {}, page |-> None]

(***************************************************************************)
(* The inputs the model draws from.                                        *)
(***************************************************************************)
SeqsUpTo(S, n) == UNION {[1..k -> S] : k \in 0..n}

\* Suggestions the YAML source may hold.
Markdowns == {<<"*", "*", "A", "*", "*">>, <<"B", "<">>}
MoreMarkdowns == Markdowns \cup {<<"*", "C", "*">>, <<"D", "&">>}

\* What things-to-check.yml may be: any short sequence of strings and
\* mappings, a mapping, or text that is no YAML.
YamlDocs ==
    {SeqDoc(nodes) : nodes \in SeqsUpTo({StrNode(m) : m \in Markdowns} \cup {MapNode}, MaxThings)}
        \cup {MapDoc, BadDoc}

\* Sequences of strings only, for the builds of a source and its extension.
StringDocs == {SeqDoc(nodes) : nodes \in SeqsUpTo({StrNode(m) : m \in MoreMarkdowns}, MaxThings)}

\* The query strings requests arrive with.
Item(v) == ItemKey \o <<"=">> \o v
QueryStrings ==
    {<<>>,
     Item(<<"0">>), Item(<<"1">>), Item(<<"3">>),
     Item(<<"x">>),
     Item(UsizeMax),
     Item(<<"1", "8", "4", "4", "6", "7", "4", "4", "0", "7",
            "3", "7", "0", "9", "5", "5", "1", "6", "1", "6">>)}

\* What PORT may be when main runs, and when port is called on its own.
MainPorts == {NotPresent, NotUnicode, Present(<<"x">>)}
PortChars == {"0", "3", "5", "6", "+", "x"}
PortEnvs == {NotPresent, NotUnicode} \cup {Present(s) : s \in SeqsUpTo(PortChars, MaxPortLen)}
DefaultPorts == {0, 3000, 65535}

\* main passes 3000 to twelve::port.
DefaultPort == 3000

Workers == 1..NumWorkers
Conns == 1..NumConns

NotCalled == Err("not called")
IdleConn == [st |-> "idle", query |-> <<>>, resp |-> NoResponse]

(***************************************************************************)
(* main, src/bin/web.rs.                                                   *)
(***************************************************************************)
appvars == <<extension, built, built_ext>>

\* let port = twelve::port(3000)?;
ReadPort ==
    /\ pc = "start"
    /\ port_arg' = DefaultPort
    /\ port_result' = port(PORT, DefaultPort)
    /\ pc' = IF IsOk(port_result') THEN "port" ELSE "exit_err"
    /\ UNCHANGED <<PORT, THINGS, things, data, conn, appvars>>

\* let service = view::make_service()?;
MakeService ==
    /\ pc = "port"
    /\ things' = make_service(THINGS)
    /\ pc' = IF IsOk(things') THEN "service" ELSE "exit_err"
    /\ UNCHANGED <<PORT, THINGS, port_arg, port_result, data, conn, appvars>>

\* HttpServer::new(app_factory).bind(port)?: the sockets are bound, or an
\* IO error ends main.
Bind ==
    /\ pc = "service"
    /\ \E bound \in BOOLEAN : pc' = IF bound THEN "bound" ELSE "exit_err"
    /\ UNCHANGED <<PORT, THINGS, port_arg, port_result, things, data, conn, appvars>>

\* .run(): every worker is started and calls app_factory, which is
\* cfg.data(things.clone()).service(index); main then awaits the server.
Run ==
    /\ pc = "bound"
    /\ pc' = "running"
    /\ data' = [w \in Workers |-> Some(things.val)]
    /\ UNCHANGED <<PORT, THINGS, port_arg, port_result, things, conn, appvars>>

(***************************************************************************)
(* Requests.                                                               *)
(***************************************************************************)
\* A GET / with query string q arrives on connection c.
Receive(c, q) ==
    /\ pc = "running"
    /\ conn[c].st = "idle"
    /\ conn' = [conn EXCEPT ![c] = [st |-> "request", query |-> q, resp |-> NoResponse]]
    /\ UNCHANGED <<PORT, THINGS, pc, port_arg, port_result, things, data, appvars>>

\* The mutant of Index: a suggestion served at random is taken out of the
\* worker's catalog, so that it is not suggested twice.
IndexTaking(c, w) ==
    /\ conn[c].st = "request"
    /\ data[w] # None
    /\ LET query == QueryFromStr(conn[c].query)
       IN  \/ /\ ~IsOk(query)
              /\ conn' = [conn EXCEPT ![c] = [st |-> "response", query |-> conn[c].query,
                                              resp |-> BadRequest]]
              /\ data' = data
           \/ /\ IsOk(query)
              /\ \E thing \in Selected(data[w].val, query.val.item) :
                    /\ conn' = [conn EXCEPT ![c] = [st |-> "response", query |-> conn[c].query,
                                                    resp |-> Respond(thing)]]
                    /\ data' = IF IsSome(thing) /\ ~IsSome(query.val.item)
                               THEN [data EXCEPT ![w] = Some(SelectSeq(data[w].val,
                                                               LAMBDA e : e # thing.val))]
                               ELSE data
    /\ UNCHANGED <<PORT, THINGS, pc, port_arg, port_result, things, appvars>>

\* async fn index, run by worker w on the request of connection c.  The
\* Query extractor runs first; the handler runs only if it succeeds, and
\* answers with `thing`, the outcome of its first match.
Index(c, w) ==
    /\ conn[c].st = "request"
    /\ data[w] # None
    /\ LET query == QueryFromStr(conn[c].query)
       IN  \/ /\ ~IsOk(query)
              /\ conn' = [conn EXCEPT ![c] = [st |-> "response", query |-> conn[c].query,
                                              resp |-> BadRequest]]
           \/ /\ IsOk(query)
              /\ \E thing \in Selected(data[w].val, query.val.item) :
                    conn' = [conn EXCEPT ![c] = [st |-> "response", query |-> conn[c].query,
                                                 resp |-> Respond(thing)]]
    /\ UNCHANGED <<PORT, THINGS, pc, port_arg, port_result, things, data, appvars>>

\* The client has its response; the connection takes the next request.
Close(c) ==
    /\ conn[c].st = "response"
    /\ conn' = [conn EXCEPT ![c] = IdleConn]
    /\ UNCHANGED <<PORT, THINGS, pc, port_arg, port_result, things, data, appvars>>

Init ==
    /\ PORT \in MainPorts
    /\ THINGS \in YamlDocs
    /\ pc = "start"
    /\ port_arg = 0
    /\ port_result = NotCalled
    /\ things = NotCalled
    /\ data = [w \in Workers |-> None]
    /\ conn = [c \in Conns |-> IdleConn]
    /\ extension = SeqDoc(<<>>)
    /\ built = NotCalled
    /\ built_ext = NotCalled

Next ==
    \/ ReadPort
    \/ MakeService
    \/ Bind
    \/ Run
    \/ \E c \in Conns, q \in QueryStrings : Receive(c, q)
    \/ \E c \in Conns, w \in Workers : Index(c, w)
    \/ \E c \in Conns : Close(c)

Spec == Init /\ [][Next]_vars

(***************************************************************************)
(* twelve::port on its own, for any PORT and any default.                  *)
(***************************************************************************)
CallPort(default_port) ==
    /\ port_result = NotCalled
    /\ port_arg' = default_port
    /\ port_result' = port(PORT, default_port)
    /\ UNCHANGED <<PORT, THINGS, pc, things, data, conn, appvars>>

InitPort ==
    /\ PORT \in PortEnvs
    /\ THINGS = SeqDoc(<<>>)
    /\ pc = "start"
    /\ port_arg = 0
    /\ port_result = NotCalled
    /\ things = NotCalled
    /\ data = [w \in Workers |-> None]
    /\ conn = [c \in Conns |-> IdleConn]
    /\ extension = SeqDoc(<<>>)
    /\ built = NotCalled
    /\ built_ext = NotCalled

NextPort == \E d \in DefaultPorts : CallPort(d)

SpecPort == InitPort /\ [][NextPort]_vars

(***************************************************************************)
(* load_things on a source and on the same source with suggestions         *)
(* appended.                                                               *)
(***************************************************************************)
Extended == SeqDoc(THINGS.nodes \o extension.nodes)

BuildBase ==
    /\ built = NotCalled
    /\ built' = load_things(THINGS)
    /\ UNCHANGED <<PORT, THINGS, pc, port_arg, port_result, things, data, conn,
                   extension, built_ext>>

BuildExtended ==
    /\ built_ext = NotCalled
    /\ built_ext' = load_things(Extended)
    /\ UNCHANGED <<PORT, THINGS, pc, port_arg, port_result, things, data, conn,
                   extension, built>>

InitAppend ==
    /\ PORT = NotPresent
    /\ THINGS \in StringDocs
    /\ extension \in StringDocs
    /\ pc = "start"
    /\ port_arg = 0
    /\ port_result = NotCalled
    /\ things = NotCalled
    /\ data = [w \in Workers |-> None]
    /\ conn = [c \in Conns |-> IdleConn]
    /\ built = NotCalled
    /\ built_ext = NotCalled

NextAppend == BuildBase \/ BuildExtended

SpecAppend == InitAppend /\ [][NextAppend]_vars

(***************************************************************************)
(* Properties.                                                             *)
(***************************************************************************)
Responded(c) == conn[c].st = "response"

ItemPrefix == ItemKey \o <<"=">>

\* The request on connection c has an `item` parameter, and nothing else.
HasItem(c) ==
    /\ Len(conn[c].query) >= Len(ItemPrefix)
    /\ SubSeq(conn[c].query, 1, Len(ItemPrefix)) = ItemPrefix

ItemText(c) == SubSeq(conn[c].query, Len(ItemPrefix) + 1, Len(conn[c].query))

\* The request on connection c asks for index i in so many words.
AsksFor(c, i) == conn[c].query = Item(to_string(i))

NoStore == <<"Cache-Control", "no-store">>

\* The source is a sequence of strings.
ValidSource(doc) ==
    /\ doc.kind = "seq"
    /\ \A k \in 1..Len(doc.nodes) : doc.nodes[k].kind = "str"

\* The HTML of each suggestion of Markdowns, as CommonMark defines it.
ExpectedHtml(m) ==
    CASE m = <<"*", "*", "A", "*", "*">> -> <<"<p>", "<strong>", "A", "</strong>", "</p>", "\n">>
      [] m = <<"B", "<">> -> <<"<p>", "B", "&lt;", "</p>", "\n">>

\* C1: a request for an explicit index at or past the end of the catalog is
\* answered 404 Not Found, without a page: never a suggestion, and so never a
\* random one.
C1_OutOfRangeIsNotFound ==
    \A c \in Conns :
        (/\ Responded(c)
         /\ \/ \E i \in 0..9 : AsksFor(c, i) /\ i >= Len(things.val)
            \/ conn[c].query = Item(UsizeMax))
        => (conn[c].resp.status = 404 /\ conn[c].resp.page = None)

C1_Witness ==
    \E c \in Conns :
        /\ Responded(c)
        /\ AsksFor(c, 3)
        /\ Len(things.val) = 2
        /\ conn[c].resp.status = 404

\* C2: the share link of every page served, whether the suggestion was asked
\* for by index or chosen at random, has the query item=i and nothing else,
\* and a request with that query is answered by the suggestion of the page:
\* the same index, markdown and html, hence the same page.
C2_ShareLinkRoundTrip ==
    \A c \in Conns :
        (Responded(c) /\ conn[c].resp.status = 200)
        => LET page == conn[c].resp.page.val
               link == page.share.query
               query == QueryFromStr(link)
           IN  /\ Len(QueryPairs(link)) = 1
               /\ QueryPairs(link)[1][1] = ItemKey
               /\ IsOk(query)
               /\ IsSome(query.val.item)
               /\ link = Item(to_string(query.val.item.val))
               /\ \A thing \in Selected(things.val, query.val.item) :
                     /\ IsSome(thing)
                     /\ thing.val[1] = query.val.item.val
                     /\ thing.val[2].markdown = page.title
                     /\ thing.val[2].html = page.section
                     /\ Respond(thing) = conn[c].resp

C2_Witness ==
    \E c \in Conns :
        /\ Responded(c)
        /\ conn[c].query = <<>>
        /\ conn[c].resp.status = 200
        /\ conn[c].resp.page.val.share.query = Item(<<"1">>)
        /\ Len(things.val) = 2
        /\ things.val[1][2] # things.val[2][2]

\* C3: when suggestions are appended to a source, the catalog built from the
\* longer source has, at every index of the catalog built from the shorter
\* one, the identical entry: the same index, markdown and html.
C3_IndexStableUnderAppend ==
    (IsOk(built) /\ IsOk(built_ext))
    => /\ Len(built.val) = Len(THINGS.nodes)
       /\ Len(built_ext.val) = Len(THINGS.nodes) + Len(extension.nodes)
       /\ \A i \in 0..(Len(built.val) - 1) :
             /\ built_ext.val[i + 1] = built.val[i + 1]
             /\ built.val[i + 1][1] = i
             /\ built.val[i + 1][2].markdown = THINGS.nodes[i + 1].val

C3_Witness ==
    /\ IsOk(built)
    /\ IsOk(built_ext)
    /\ Len(built.val) = 2
    /\ Len(built_ext.val) = 4
    /\ built_ext.val[3][2] # built_ext.val[1][2]

\* C4: while the server runs, whatever requests have been received and
\* answered, the catalog of every worker is the one built at startup: one
\* entry per string of the source, in order, the entry at position p holding
\* index p, that string as markdown, and its HTML.
C4_CatalogNeverChanges ==
    pc = "running"
    => /\ ValidSource(THINGS)
       /\ IsOk(things)
       /\ Len(things.val) = Len(THINGS.nodes)
       /\ \A p \in 0..(Len(THINGS.nodes) - 1) :
             /\ things.val[p + 1][1] = p
             /\ things.val[p + 1][2].markdown = THINGS.nodes[p + 1].val
             /\ things.val[p + 1][2].html = ExpectedHtml(THINGS.nodes[p + 1].val)
       /\ \A w \in Workers : data[w] = Some(things.val)

C4_Witness ==
    /\ pc = "running"
    /\ Len(things.val) = 2
    /\ \A c \in Conns : Responded(c) /\ conn[c].query = <<>> /\ conn[c].resp.status = 200
    /\ \A w \in Workers : data[w] = Some(things.val)

\* C5: a request without `item`, on a catalog that is not empty, is answered
\* by a page for an entry of the catalog, never by 404; and while such a
\* request waits, whatever the other requests were answered with, every entry
\* of the catalog is one it may be answered with.
C5_RandomServesAnyEntry ==
    \A c \in Conns :
        (pc = "running" /\ conn[c].query = <<>> /\ Len(things.val) > 0)
        => /\ Responded(c) =>
                /\ conn[c].resp.status = 200
                /\ \E k \in 1..Len(things.val) :
                      conn[c].resp = Respond(Some(things.val[k]))
           /\ conn[c].st = "request" =>
                \A k \in 1..Len(things.val) : \A w \in Workers :
                    ENABLED (Index(c, w) /\ conn'[c].resp = Respond(Some(things.val[k])))

C5_Witness ==
    \E c, d \in Conns :
        /\ c # d
        /\ pc = "running"
        /\ Len(things.val) = 2
        /\ conn[c].st = "request"
        /\ conn[c].query = <<>>
        /\ Responded(d)
        /\ conn[d].query = <<>>
        /\ conn[d].resp.page.val.share.query = Item(<<"1">>)

\* C6: a request without `item` on an empty catalog is answered 404 Not
\* Found, without a page; the server keeps running with its catalog, and the
\* connection can be closed and used again.
C6_EmptyCatalogIsNotFound ==
    \A c \in Conns :
        (Responded(c) /\ conn[c].query = <<>> /\ things.val = <<>>)
        => /\ conn[c].resp.status = 404
           /\ conn[c].resp.page = None
           /\ pc = "running"
           /\ \A w \in Workers : data[w] = Some(<<>>)
           /\ ENABLED Close(c)

C6_Witness ==
    /\ things = Ok(<<>>)
    /\ \A c \in Conns :
          Responded(c) /\ conn[c].query = <<>> /\ conn[c].resp.status = 404

\* C7 as the spec has it: a request whose `item` is present but is no
\* unsigned integer is answered 404 Not Found, without a page.
C7_NonNumericIsNotFound ==
    \A c \in Conns :
        (Responded(c) /\ HasItem(c) /\ ~IsOk(ParseUnsigned(ItemText(c), UsizeMax)))
        => (conn[c].resp.status = 404 /\ conn[c].resp.page = None)

\* C7, amended: a request whose `item` is present but is no unsigned integer
\* is answered 400 Bad Request by the Query extractor, without a page; the
\* handler, and so the 404 of an index out of range, is never reached.
C7_NonNumericIsBadRequest ==
    \A c \in Conns :
        (Responded(c) /\ HasItem(c) /\ ~IsOk(ParseUnsigned(ItemText(c), UsizeMax)))
        => (conn[c].resp.status = 400 /\ conn[c].resp.page = None)

C7_Witness ==
    \E c \in Conns :
        /\ Responded(c)
        /\ conn[c].query = Item(<<"x">>)
        /\ conn[c].resp.status = 400
        /\ Len(things.val) = 2

\* C8 as the spec has it: every response carries Cache-Control: no-store.
C8_EveryResponseNoStore ==
    \A c \in Conns : Responded(c) => NoStore \in conn[c].resp.headers

\* C8, amended: every response that serves a suggestion, asked for by index
\* or chosen at random, carries Cache-Control: no-store.
C8_PagesAreNoStore ==
    \A c \in Conns :
        (Responded(c) /\ (conn[c].resp.status = 200 \/ conn[c].resp.page # None))
        => (conn[c].resp.status = 200 /\ NoStore \in conn[c].resp.headers)

C8_Witness ==
    \E c, d \in Conns :
        /\ Responded(c) /\ conn[c].query = <<>> /\ NoStore \in conn[c].resp.headers
        /\ Responded(d) /\ AsksFor(d, 0) /\ NoStore \in conn[d].resp.headers

\* C9 as the spec has it: the server is bound, runs and answers requests only
\* with a catalog that was loaded and is not empty.
C9_NeverServesEmptyOrCorrupt ==
    (pc \in {"service", "bound", "running"} \/ \E c \in Conns : conn[c].st # "idle")
    => (IsOk(things) /\ ValidSource(THINGS) /\ Len(things.val) > 0)

\* C9, amended: the server is bound, runs and answers requests only after the
\* catalog was loaded from a source that is a sequence of strings, which may
\* be empty; with any other source main ends in an error at make_service,
\* before bind, and no request is ever received.
C9_StartsOnlyWithLoadedCatalog ==
    /\ (pc \in {"service", "bound", "running"} \/ \E c \in Conns : conn[c].st # "idle")
       => (ValidSource(THINGS) /\ IsOk(things) /\ IsOk(port_result))
    /\ (~ValidSource(THINGS) /\ things # NotCalled)
       => (pc = "exit_err" /\ ~IsOk(things)
           /\ \A c \in Conns : conn[c] = IdleConn
           /\ \A w \in Workers : data[w] = None)

C9_Witness ==
    /\ ~ValidSource(THINGS)
    /\ THINGS.kind = "seq"
    /\ things # NotCalled
    /\ pc = "exit_err"

\* The text s as a u16, read digit by digit with checked arithmetic: -1 when
\* s is no u16.
RECURSIVE CheckedU16(_, _)
CheckedU16(s, acc) ==
    IF s = <<>> THEN acc
    ELSE IF ~IsDigit(Head(s)) THEN -1
    ELSE IF acc * 10 + DigitVal(Head(s)) > 65535 THEN -1
    ELSE CheckedU16(Tail(s), acc * 10 + DigitVal(Head(s)))

AsU16(s) ==
    IF s = <<>> \/ s = <<"+">> THEN -1
    ELSE IF Head(s) = "+" THEN CheckedU16(Tail(s), 0)
    ELSE CheckedU16(s, 0)

\* C10: twelve::port returns the default port when PORT is not set, the
\* value of PORT when PORT is the text of a u16, whatever the default, and an
\* error, never the default, for any other PORT.
C10_PortFromEnvironment ==
    port_result # NotCalled
    => /\ PORT = NotPresent => port_result = Ok(PortAddr(port_arg))
       /\ PORT = NotUnicode => ~IsOk(port_result)
       /\ PORT.tag = "Present" =>
             IF AsU16(PORT.val) >= 0
             THEN port_result = Ok(PortAddr(AsU16(PORT.val)))
             ELSE ~IsOk(port_result)

C10_Witness ==
    /\ PORT = Present(<<"6", "5", "5", "3", "5">>)
    /\ port_arg = 3000
    /\ port_result = Ok(PortAddr(65535))

====
